---- MODULE Spec2Model ----
(***************************************************************************)
(* The dependency-tracked state container of state-with-deps:              *)
(* useStateWithDeps (a state record in a ref, one "accessed" flag per      *)
(* field, an unmounted flag and the force-render callback) and the         *)
(* getters through which a consumer reads it.                              *)
(*                                                                         *)
(* Field values are opaque: references and primitives compared with !==.   *)
(* They are modelled as small naturals, 0 standing for undefined; the      *)
(* state types of the repository (string[], number, Pokemon | null) hold   *)
(* no NaN, the one value that !== tells apart from itself.                 *)
(***************************************************************************)
EXTENDS Integers, FiniteSets, Sequences, TLC

\* ------------------------------------------------------------------ bounds
\* Number of distinct defined values a field can hold.
NumValues == 2

\* ------------------------------------------------------------ value domain
\* What reading an absent property yields.
Undefined == 0

Values == 1..NumValues

\* The fields of the initial state record (the fixed field set).
Fields == {"a", "b"}

\* A key that is not a field of the initial state record.
UnknownKeys == {"z"}

PayloadKeys == Fields \cup UnknownKeys

\* The values a payload gives to a key: a field gets any defined value or an
\* explicit undefined; an unknown key gets undefined or one defined value,
\* which is enough to create it, keep it and overwrite it.
PayloadValues(k) ==
  IF k \in Fields THEN Values \cup {Undefined} ELSE {Undefined, 1}

\* Every payload a caller can pass to setState: any subset of the keys.
Payloads ==
  UNION { { p \in [ks -> Values \cup {Undefined}] :
              \A k \in ks : p[k] \in PayloadValues(k) } :
          ks \in SUBSET PayloadKeys }

EmptyPayload == [k \in {} |-> Undefined]

\* The record passed to the hook at construction.  Fields are compared one
\* by one and values only with themselves, so one initial record stands for
\* all of them up to renaming of values.
initialState == [f \in Fields |-> 1]

\* --------------------------------------------------------------- variables
VARIABLES
  stateRef,           \* stateRef.current
  stateDependencies,  \* stateDependenciesRef.current
  unmounted,          \* unmounted.current
  lastWritten,        \* per field: value of the latest write that changed it
  lastGiven,          \* per key: value given by the latest payload holding it
  call                \* the operation that produced this state

\* The container: useStateWithDeps and what is observed of it.
containerVars ==
  <<stateRef, stateDependencies, unmounted, lastWritten, lastGiven, call>>

\* The producer of the data/length scenario.
VARIABLES
  history             \* the set calls made so far, in call order

scenarioVars == <<history>>

\* The test component App with useDataWithDepsTracking(label).
VARIABLES
  label,              \* the label state of App
  submitted,          \* the labels submitted so far
  renders,            \* calls of console.count("Render App")
  renderPending,      \* a state update has scheduled a render
  effectPending,      \* the label effect is to run after the commit
  setStateMemo,       \* the useCallback slot holding setState
  effectDeps,         \* [label, setState] of the latest render
  nextRef             \* the next array reference to allocate

dataVars ==
  <<label, submitted, renders, renderPending, effectPending, setStateMemo,
    effectDeps, nextRef>>

\* The EvenButton component.
VARIABLES
  refState,           \* refState.current, the hidden counter
  count,              \* the count state
  text,               \* the text content of the button
  clicks,             \* clicks fired so far
  buttonRenderPending \* setCount has scheduled a render

buttonVars == <<refState, count, text, clicks, buttonRenderPending>>

\* The useStarterPokemon hooks and the component that uses them.
VARIABLES
  fetch,                \* per pokemon: how far its fetch has got
  aborted,              \* per pokemon: controller.signal.aborted
  mountEffectsRun,      \* the mount effects have run
  readBeforeEffects,    \* the fields read before the mount effects ran
  starterRenders,       \* calls of console.count("Render App")
  starterRenderPending  \* rerender({}) has scheduled a render

starterVars ==
  <<fetch, aborted, mountEffectsRun, readBeforeEffects, starterRenders,
    starterRenderPending>>

\* What a consumer holds of the container: its view.
VARIABLES
  lastRead,           \* per field: the value obtained at the latest read
  signalledSinceRead  \* per field: rerender was invoked since that read

viewVars == <<lastRead, signalledSinceRead>>

\* The second variant, useStateWithDeps(state, unmountedRef), run beside the
\* first one.
VARIABLES
  twinStateRef,           \* its stateRef.current
  twinStateDependencies,  \* its stateDependenciesRef.current
  unmountedRef,           \* unmountedRef.current, owned by the caller
  twinCall                \* what its last operation returned and signalled

twinVars ==
  <<twinStateRef, twinStateDependencies, unmountedRef, twinCall>>

\* Everything outside the container.
hostVars ==
  <<scenarioVars, dataVars, buttonVars, starterVars, viewVars, twinVars>>

vars == <<containerVars, hostVars>>

\* ------------------------------------------------------- object primitives
\* obj[k] in JavaScript: undefined when the property is absent.
Lookup(obj, k) == IF k \in DOMAIN obj THEN obj[k] ELSE Undefined

\* obj[k] = v in JavaScript: overwrites the property or creates it.
Assign(obj, k, v) ==
  [x \in DOMAIN obj \cup {k} |-> IF x = k THEN v ELSE obj[x]]

\* ------------------------------------------------------------ construction
\* Object.keys(stateRef.current).reduce(... [curr]: false ...)
InitDependencies(state) == [k \in DOMAIN state |-> FALSE]

\* ---------------------------------------------------------------- setState
\* Mutant: the comparison is dropped, every payload key counts as changed.
PropertyChangedAlways(currentState, payload, k) == TRUE

\* currentState[k] !== payload[k]
PropertyChanged(currentState, payload, k) ==
  Lookup(currentState, k) # payload[k]

\* Mutant: the flag is not consulted, every key counts as accessed.
DependencyAccessedAlways(deps, k) == TRUE

\* Mutant: the flag is tested with !== false, so the absent flag of an
\* unknown key counts as accessed.
DependencyAccessedUnlessFalse(deps, k) == k \notin DOMAIN deps \/ deps[k]

\* Mutant: the test looks at the flags of all keys, not at the flag of k.
DependencyAccessedAnyKey(deps, k) == \E j \in DOMAIN deps : deps[j]

\* Mutant: the flag read is always falsy, no key counts as accessed.
DependencyAccessedNever(deps, k) == FALSE

\* if (stateDependenciesRef.current[k]): an absent flag is undefined, falsy.
DependencyAccessed(deps, k) == k \in DOMAIN deps /\ deps[k]

\* Mutant: shouldRerender is assigned from the flag of each changed key
\* (shouldRerender = !!deps[k]), so a later untracked key clears it.
RECURSIVE SetStateLoopLastKeyDecides(_, _, _, _, _)
SetStateLoopLastKeyDecides(keys, payload, currentState, deps, shouldRerender) ==
  IF keys = {}
  THEN [state |-> currentState, shouldRerender |-> shouldRerender]
  ELSE LET k == CHOOSE x \in keys : TRUE
       IN  IF Lookup(currentState, k) # payload[k]
           THEN SetStateLoopLastKeyDecides(
                  keys \ {k}, payload, Assign(currentState, k, payload[k]),
                  deps, k \in DOMAIN deps /\ deps[k])
           ELSE SetStateLoopLastKeyDecides(
                  keys \ {k}, payload, currentState, deps, shouldRerender)

\* Mutant: the loop is left at the first changed key (a break after the
\* write), so the remaining keys of the payload are not stored.
RECURSIVE SetStateLoopStopsAtFirstChange(_, _, _, _, _)
SetStateLoopStopsAtFirstChange(keys, payload, currentState, deps, shouldRerender) ==
  IF keys = {}
  THEN [state |-> currentState, shouldRerender |-> shouldRerender]
  ELSE LET k == CHOOSE x \in keys : TRUE
       IN  IF Lookup(currentState, k) # payload[k]
           THEN [state          |-> Assign(currentState, k, payload[k]),
                 shouldRerender |-> k \in DOMAIN deps /\ deps[k]]
           ELSE SetStateLoopStopsAtFirstChange(
                  keys \ {k}, payload, currentState, deps, shouldRerender)

\* for (const k in payload) { ... }: the keys still to visit, the state
\* object as written so far and the shouldRerender local.
RECURSIVE SetStateLoop(_, _, _, _, _)
SetStateLoop(keys, payload, currentState, deps, shouldRerender) ==
  IF keys = {}
  THEN [state |-> currentState, shouldRerender |-> shouldRerender]
  ELSE LET k == CHOOSE x \in keys : TRUE
       IN  IF PropertyChanged(currentState, payload, k)
           THEN SetStateLoop(keys \ {k}, payload,
                             Assign(currentState, k, payload[k]), deps,
                             IF DependencyAccessed(deps, k)
                             THEN TRUE ELSE shouldRerender)
           ELSE SetStateLoop(keys \ {k}, payload, currentState, deps,
                             shouldRerender)

\* Mutant: the unmounted flag is not consulted.
RerenderCallsIgnoringUnmount(shouldRerender, isUnmounted) ==
  IF shouldRerender THEN 1 ELSE 0

\* if (shouldRerender && !unmounted.current) rerender({}): the number of
\* times rerender is invoked.
RerenderCalls(shouldRerender, isUnmounted) ==
  IF shouldRerender /\ ~isUnmounted THEN 1 ELSE 0

\* The merge of a payload into a state record, key by key.
RECURSIVE Merged(_, _, _)
Merged(keys, payload, currentState) ==
  IF keys = {} THEN currentState
  ELSE LET k == CHOOSE x \in keys : TRUE
       IN  Merged(keys \ {k}, payload,
                  IF Lookup(currentState, k) # payload[k]
                  THEN Assign(currentState, k, payload[k]) ELSE currentState)

\* The payload keys that changed and whose flag is set.
ChangedAccessed(payload, currentState, deps) ==
  { k \in DOMAIN payload :
      /\ Lookup(currentState, k) # payload[k]
      /\ k \in DOMAIN deps /\ deps[k] }

\* Mutant: rerender is called inside the loop, once per changed accessed key.
setStateRerenderPerKey(payload, currentState, deps, isUnmounted) ==
  [state         |-> Merged(DOMAIN payload, payload, currentState),
   deps          |-> deps,
   rerenderCalls |->
     IF isUnmounted THEN 0
     ELSE Cardinality(ChangedAccessed(payload, currentState, deps))]

\* Mutant: an early return when unmounted, the write is lost.
setStateDropWhenUnmounted(payload, currentState, deps, isUnmounted) ==
  IF isUnmounted
  THEN [state |-> currentState, deps |-> deps, rerenderCalls |-> 0]
  ELSE [state         |-> Merged(DOMAIN payload, payload, currentState),
        deps          |-> deps,
        rerenderCalls |->
          IF ChangedAccessed(payload, currentState, deps) # {} THEN 1 ELSE 0]

\* Mutant: a one-shot subscription, the flag of a key is cleared once its
\* change has been signalled.
setStateOneShot(payload, currentState, deps, isUnmounted) ==
  LET hit == ChangedAccessed(payload, currentState, deps)
  IN  [state         |-> Merged(DOMAIN payload, payload, currentState),
       deps          |-> [k \in DOMAIN deps |-> deps[k] /\ k \notin hit],
       rerenderCalls |-> IF hit # {} /\ ~isUnmounted THEN 1 ELSE 0]

\* Mutant: writing a field marks it as a dependency.
setStateMarksWritten(payload, currentState, deps, isUnmounted) ==
  [state         |-> Merged(DOMAIN payload, payload, currentState),
   deps          |-> [k \in DOMAIN deps |->
                        deps[k] \/ (k \in DOMAIN payload
                                     /\ Lookup(currentState, k) # payload[k])],
   rerenderCalls |->
     IF ChangedAccessed(payload, currentState, deps) # {} /\ ~isUnmounted
     THEN 1 ELSE 0]

\* Mutant: the payload is merged into the record given at construction
\* instead of the current one, so earlier writes are lost.
setStateFromInitial(payload, currentState, deps, isUnmounted) ==
  [state         |-> Merged(DOMAIN payload, payload, initialState),
   deps          |-> deps,
   rerenderCalls |->
     IF ChangedAccessed(payload, initialState, deps) # {} /\ ~isUnmounted
     THEN 1 ELSE 0]

\* One call of setState(payload): the state record and the dependency flags
\* it leaves behind and the number of rerender invocations it makes.
setState(payload, currentState, deps, isUnmounted) ==
  LET loop == SetStateLoop(DOMAIN payload, payload, currentState, deps, FALSE)
  IN  [state         |-> loop.state,
       deps          |-> deps,
       rerenderCalls |-> RerenderCalls(loop.shouldRerender, isUnmounted)]

\* ------------------------------------------------------------------ getter
\* Mutant: the getter returns the value the field had at construction.
getterStale(currentState, deps, field) ==
  [deps |-> Assign(deps, field, TRUE),
   ret  |-> initialState[field]]

\* Mutant: the getter returns the value without marking the field.
getterNoMark(currentState, deps, field) ==
  [deps |-> deps,
   ret  |-> Lookup(currentState, field)]

\* Mutant: reading one field marks every field as a dependency.
getterMarksAll(currentState, deps, field) ==
  [deps |-> [k \in DOMAIN deps |-> TRUE],
   ret  |-> Lookup(currentState, field)]

\* get field() { stateDependencies.field = true;
\*               return stateRef.current.field; }
getter(currentState, deps, field) ==
  [deps |-> Assign(deps, field, TRUE),
   ret  |-> Lookup(currentState, field)]

\* ----------------------------------------------------------------- unmount
\* Mutant: the cleanup leaves the flag as it is.
unmountCleanupKeepsFlag(isUnmounted) == isUnmounted

\* The cleanup of the mount effect: unmounted.current = true.
unmountCleanup(isUnmounted) == TRUE

\* ----------------------------------------------------------------- actions
NoCall ==
  [name |-> "init", payload |-> EmptyPayload, field |-> "",
   state |-> EmptyPayload, deps |-> EmptyPayload, unmounted |-> FALSE,
   rerenderCalls |-> 0, ret |-> Undefined]

\* useStateWithDeps(state) on the first render.
ContainerInit(state) ==
  /\ stateRef = state
  /\ stateDependencies = InitDependencies(state)
  /\ unmounted = FALSE
  /\ lastWritten = state
  /\ lastGiven = [k \in DOMAIN state \cup UnknownKeys |-> Lookup(state, k)]
  /\ call = NoCall

\* No scenario is being played.
ScenarioIdle == history = <<>>

\* No function has been memoized.
NoMemo == [fn |-> 0, deps |-> <<>>]

\* The test component is not rendered.
DataIdle ==
  /\ label = <<>>
  /\ submitted = <<>>
  /\ renders = 0
  /\ renderPending = FALSE
  /\ effectPending = FALSE
  /\ setStateMemo = NoMemo
  /\ effectDeps = <<>>
  /\ nextRef = 0

\* The three starters, fields of the PokemonStarter state.
Starters == {"bulbasaur", "charmander", "squirtle"}

\* No component uses useStarterPokemon.
StarterIdle ==
  /\ fetch = [p \in Starters |-> "idle"]
  /\ aborted = [p \in Starters |-> FALSE]
  /\ mountEffectsRun = FALSE
  /\ readBeforeEffects = {}
  /\ starterRenders = 0
  /\ starterRenderPending = FALSE

\* A field the consumer has not read yet has no value in its view.
Unread == [read |-> FALSE, value |-> Undefined]

\* A field the consumer has read, with the value the getter returned.
ReadAs(value) == [read |-> TRUE, value |-> value]

\* No consumer view is being followed.
ViewIdle ==
  /\ lastRead = <<>>
  /\ signalledSinceRead = <<>>

\* The second variant is not in use.
TwinIdle ==
  /\ twinStateRef = <<>>
  /\ twinStateDependencies = <<>>
  /\ unmountedRef = FALSE
  /\ twinCall = [rerenderCalls |-> 0, ret |-> Undefined]

\* EvenButton as first rendered: useState(0), useRef(count), {count}.
ButtonInit ==
  /\ count = 0
  /\ refState = count
  /\ text = count
  /\ clicks = 0
  /\ buttonRenderPending = FALSE

Init ==
  /\ ContainerInit(initialState)
  /\ ScenarioIdle
  /\ DataIdle
  /\ ButtonInit
  /\ StarterIdle
  /\ ViewIdle
  /\ TwinIdle

\* A producer calls setState(payload).
SetState(payload) ==
  LET r == setState(payload, stateRef, stateDependencies, unmounted)
  IN  /\ stateRef' = r.state
      /\ stateDependencies' = r.deps
      /\ lastWritten' =
           [f \in DOMAIN lastWritten |->
              IF f \in DOMAIN payload /\ payload[f] # stateRef[f]
              THEN payload[f] ELSE lastWritten[f]]
      /\ lastGiven' =
           [k \in DOMAIN lastGiven |->
              IF k \in DOMAIN payload THEN payload[k] ELSE lastGiven[k]]
      /\ call' = [name |-> "setState", payload |-> payload, field |-> "",
                  state |-> stateRef, deps |-> stateDependencies,
                  unmounted |-> unmounted,
                  rerenderCalls |-> r.rerenderCalls, ret |-> Undefined]
      /\ UNCHANGED unmounted

\* The consumer reads a field through its getter.
Get(field) ==
  LET r == getter(stateRef, stateDependencies, field)
  IN  /\ stateDependencies' = r.deps
      /\ call' = [name |-> "get", payload |-> EmptyPayload, field |-> field,
                  state |-> stateRef, deps |-> stateDependencies,
                  unmounted |-> unmounted,
                  rerenderCalls |-> 0, ret |-> r.ret]
      /\ UNCHANGED <<stateRef, unmounted, lastWritten, lastGiven>>

\* The component unmounts: React runs the effect cleanup, once.
Unmount ==
  /\ ~unmounted
  /\ unmounted' = unmountCleanup(unmounted)
  /\ call' = [name |-> "unmount", payload |-> EmptyPayload, field |-> "",
              state |-> stateRef, deps |-> stateDependencies,
              unmounted |-> unmounted,
              rerenderCalls |-> 0, ret |-> Undefined]
  /\ UNCHANGED <<stateRef, stateDependencies, lastWritten, lastGiven>>

Next ==
  \/ \E payload \in Payloads : SetState(payload) /\ UNCHANGED hostVars
  \/ \E field \in Fields : Get(field) /\ UNCHANGED hostVars
  \/ Unmount /\ UNCHANGED hostVars

Spec == Init /\ [][Next]_vars

TypeOK ==
  /\ Fields \subseteq DOMAIN stateRef
  /\ DOMAIN stateRef \subseteq PayloadKeys
  /\ \A k \in DOMAIN stateRef : stateRef[k] \in Values \cup {Undefined}
  /\ unmounted \in BOOLEAN
  /\ call.name \in {"init", "setState", "get", "unmount"}

\* ------------------------------------------------------------- properties
\* The state is the one a setState call has just produced.
IsSet == call.name = "setState"

\* The state is the one a getter has just produced.
IsGet == call.name = "get"

\* In the last call, payload[k] differed by identity from the stored value.
Differs(k) == Lookup(call.state, k) # call.payload[k]

\* In the last call, the flag of k was set when the call was made.
Tracked(k) == k \in DOMAIN call.deps /\ call.deps[k] = TRUE

\* C1: a set call none of whose payload fields is both changed (by identity)
\* and tracked does not invoke rerender.
C1_NoSignalOnUntrackedChange ==
  (IsSet /\ ~(\E k \in DOMAIN call.payload : Differs(k) /\ Tracked(k)))
    => call.rerenderCalls = 0

\* With only a read and the consumer mounted, set({b: new}) with new !== old
\* has written b and has not signalled.
C1_Witness ==
  /\ IsSet /\ ~call.unmounted
  /\ Tracked("a") /\ ~Tracked("b")
  /\ DOMAIN call.payload = {"b"} /\ Differs("b")
  /\ stateRef["b"] = call.payload["b"]
  /\ call.rerenderCalls = 0

\* C2: a set call that changes the stored value of at least one tracked
\* field while the unmounted flag is false invokes rerender.
C2_SignalOnTrackedChange ==
  (IsSet /\ ~call.unmounted
         /\ (\E k \in DOMAIN call.payload : Differs(k) /\ Tracked(k)))
    => call.rerenderCalls >= 1

\* A mounted set call changed a tracked field together with an untracked
\* one, and signalled.
C2_Witness ==
  /\ IsSet /\ ~call.unmounted
  /\ \E k \in Fields : k \in DOMAIN call.payload /\ Differs(k) /\ Tracked(k)
  /\ \E k \in Fields : k \in DOMAIN call.payload /\ Differs(k) /\ ~Tracked(k)
  /\ call.rerenderCalls = 1

\* C3: a set call invokes rerender zero times or once, never more.
C3_AtMostOneSignalPerSet ==
  IsSet => call.rerenderCalls \in {0, 1}

\* a and b both tracked, set({a: v1, b: v2}) changed both: one signal.
C3_Witness ==
  /\ IsSet /\ ~call.unmounted
  /\ \A k \in Fields : k \in DOMAIN call.payload /\ Differs(k) /\ Tracked(k)
  /\ call.rerenderCalls = 1

\* C4: a set call whose payload values are all identity-equal to the stored
\* values does not invoke rerender and leaves the state record unchanged.
C4_NoSignalOnUnchangedValues ==
  (IsSet /\ (\A k \in DOMAIN call.payload : ~Differs(k)))
    => (call.rerenderCalls = 0 /\ stateRef = call.state)

\* Mounted, both fields tracked, the payload repeats both stored values.
C4_Witness ==
  /\ IsSet /\ ~call.unmounted
  /\ \A k \in Fields : k \in DOMAIN call.payload /\ ~Differs(k) /\ Tracked(k)
  /\ call.rerenderCalls = 0
  /\ stateRef = call.state

\* C5: a set call made once the unmounted flag is true does not invoke
\* rerender.
C5_NoSignalAfterUnmount ==
  (IsSet /\ call.unmounted) => call.rerenderCalls = 0

\* After unmount a set call changed a tracked field and did not signal.
C5_Witness ==
  /\ IsSet /\ call.unmounted /\ unmounted
  /\ \E k \in DOMAIN call.payload : Differs(k) /\ Tracked(k)
  /\ call.rerenderCalls = 0

\* C6: a set call made after unmount leaves the state record the same call
\* leaves when made before unmount: every payload key holds the payload's
\* value and every other key is untouched.
C6_WriteAppliesAfterUnmount ==
  (IsSet /\ call.unmounted)
    => /\ stateRef =
            setState(call.payload, call.state, call.deps, FALSE).state
       /\ \A k \in PayloadKeys :
            Lookup(stateRef, k) =
              IF k \in DOMAIN call.payload
              THEN call.payload[k] ELSE Lookup(call.state, k)

\* After unmount a set call has changed the stored value of a tracked field.
C6_Witness ==
  /\ IsSet /\ call.unmounted
  /\ \E k \in Fields :
       /\ k \in DOMAIN call.payload /\ Differs(k) /\ Tracked(k)
       /\ stateRef[k] = call.payload[k]

\* C7: once the flag of a field is true it is true in every later state.
C7_TrackingMonotonic ==
  [][\A f \in Fields :
       stateDependencies[f] = TRUE => stateDependencies'[f] = TRUE]_vars

\* After the unmount a set call has changed a field whose flag was set: the
\* flag is still set.
C7_Witness ==
  /\ unmounted
  /\ IsSet /\ Tracked("a") /\ "a" \in DOMAIN call.payload /\ Differs("a")
  /\ stateDependencies["a"] = TRUE

\* C8: the state record and the dependency flags have the same key set in
\* every reachable state.
C8_KeySetsEqual ==
  DOMAIN stateRef = DOMAIN stateDependencies

\* C9: a set call leaves the dependency flags as they were.
C9_SetKeepsTracking ==
  IsSet => stateDependencies = call.deps

\* A set call changed a tracked and an untracked field; the flags are as
\* before.
C9_Witness ==
  /\ IsSet
  /\ \E k \in Fields : k \in DOMAIN call.payload /\ Differs(k) /\ Tracked(k)
  /\ \E k \in Fields : k \in DOMAIN call.payload /\ Differs(k) /\ ~Tracked(k)
  /\ stateDependencies = call.deps

\* C10: a tracked read of f leaves the flag of f true and returns the value
\* stored for f, which is the value of the latest write that changed f (the
\* initial value if there was none).
C10_TrackedReadReturnsCurrent ==
  IsGet => /\ stateDependencies[call.field] = TRUE
           /\ call.ret = stateRef[call.field]
           /\ call.ret = lastWritten[call.field]

\* The first read of a field that a set call has changed since construction.
C10_Witness ==
  /\ IsGet /\ ~Tracked(call.field)
  /\ stateDependencies[call.field] = TRUE
  /\ call.ret # initialState[call.field]

\* C11: a tracked read does not invoke rerender and changes nothing but the
\* flag of the field read: the state record, the unmounted flag and the
\* flags of the other fields are as before.
C11_ReadChangesOnlyItsFlag ==
  IsGet => /\ call.rerenderCalls = 0
           /\ stateRef = call.state
           /\ unmounted = call.unmounted
           /\ DOMAIN stateDependencies = DOMAIN call.deps
           /\ \A f \in DOMAIN call.deps :
                f # call.field => stateDependencies[f] = call.deps[f]

\* A repeated read of a field (its flag was already set) while another field
\* is still untracked, after a set call has changed the stored values.
C11_Witness ==
  /\ IsGet /\ Tracked(call.field)
  /\ \E f \in Fields : f # call.field /\ stateDependencies[f] = FALSE
  /\ stateRef # initialState

\* The signal decision of the step's set call, taken against the values the
\* preceding calls gave: 1 when the consumer is mounted and the payload gives
\* some tracked key a value other than the latest one given before.
DecisionAgainstPreceding ==
  IF /\ ~unmounted
     /\ \E k \in DOMAIN call'.payload :
          /\ call'.payload[k] # lastGiven[k]
          /\ k \in DOMAIN stateDependencies /\ stateDependencies[k] = TRUE
  THEN 1 ELSE 0

\* C12: writes are linearized in call order, last write wins: after every
\* step each key holds the value given by the latest payload that contains
\* it (the initial value if none), and a set call signals exactly when its
\* own payload changes a tracked key of the record the preceding call left.
C12_LastWriteWins ==
  [][/\ \A k \in PayloadKeys : Lookup(stateRef', k) = lastGiven'[k]
     /\ call'.name = "setState" =>
          call'.rerenderCalls = DecisionAgainstPreceding]_vars

\* A set call that gives a tracked field the value of two calls before, not
\* of the preceding call: it is a change, it is stored and it is signalled.
C12_Witness ==
  /\ IsSet /\ ~call.unmounted
  /\ \E k \in Fields :
       /\ k \in DOMAIN call.payload /\ Tracked(k)
       /\ call.payload[k] = initialState[k]
       /\ call.state[k] # initialState[k]
       /\ stateRef[k] = initialState[k]
  /\ call.rerenderCalls = 1

\* C15: the unmounted flag is false at construction and, once true, stays
\* true; the cleanup that sets it leaves the state record and the dependency
\* flags as they were and does not invoke rerender.
C15_UnmountedFlag ==
  /\ [](call.name = "init" => unmounted = FALSE)
  /\ [](call.name = "unmount" =>
          /\ unmounted = TRUE
          /\ stateRef = call.state
          /\ stateDependencies = call.deps
          /\ call.rerenderCalls = 0)
  /\ [][unmounted = TRUE => unmounted' = TRUE]_vars

\* The flag is still true after a set call made after the unmount has
\* changed the state record.
C15_Witness ==
  /\ unmounted = TRUE
  /\ IsSet /\ call.unmounted /\ stateRef # call.state

MaxCalls == 3

\* An array: a reference (arrays are compared by reference) and its elements.
Array(ref, elems) == [ref |-> ref, elems |-> elems]

\* The container is initialised with {data: ["a"], length: 1}.
ScenarioInitial == [data |-> Array(0, <<"a">>), length |-> 1]

\* The element lists and the lengths the producer passes.
ScenarioElems == {<<"a">>, <<"x", "y">>, <<"p">>, <<>>}

ScenarioLengths == {0, 1}

ScenarioInit ==
  /\ ContainerInit(ScenarioInitial)
  /\ history = <<>>
  /\ DataIdle
  /\ ButtonInit
  /\ StarterIdle
  /\ ViewIdle
  /\ TwinIdle

\* The consumer reads a field.
ScenarioGet(field) ==
  /\ Get(field)
  /\ UNCHANGED history

\* The producer calls set({data: [...elems], length}) with a new array.
ScenarioSet(elems, length) ==
  /\ Len(history) < MaxCalls
  /\ SetState([data |-> Array(Len(history) + 1, elems), length |-> length])
  /\ history' = Append(history,
                       [elems         |-> elems,
                        length        |-> length,
                        deps          |-> stateDependencies,
                        rerenderCalls |-> call'.rerenderCalls,
                        stored        |-> stateRef'])

\* What the scenario leaves alone.
scenarioOthers == <<dataVars, buttonVars, starterVars, viewVars, twinVars>>

ScenarioNext ==
  \/ \E field \in DOMAIN ScenarioInitial :
       ScenarioGet(field) /\ UNCHANGED scenarioOthers
  \/ \E elems \in ScenarioElems, length \in ScenarioLengths :
       ScenarioSet(elems, length) /\ UNCHANGED scenarioOthers

ScenarioSpec == ScenarioInit /\ [][ScenarioNext]_vars

\* The three calls of the scenario, made by a producer whose consumer has
\* read length and nothing else.
ScenarioPlayed ==
  /\ Len(history) = 3
  /\ history[1].elems = <<"x", "y">> /\ history[1].length = 1
  /\ history[2].elems = <<"p">>      /\ history[2].length = 1
  /\ history[3].elems = <<>>         /\ history[3].length = 0
  /\ \A i \in 1..3 : history[i].deps = [data |-> FALSE, length |-> TRUE]

\* C13: in the scenario the first two calls fire no signal and the third
\* fires one, one signal in all, and each call stores its own data array.
C13_ScenarioOneSignal ==
  ScenarioPlayed =>
    /\ history[1].rerenderCalls = 0
    /\ history[2].rerenderCalls = 0
    /\ history[3].rerenderCalls = 1
    /\ history[1].rerenderCalls + history[2].rerenderCalls
         + history[3].rerenderCalls = 1
    /\ \A i \in 1..3 : history[i].stored.data = Array(i, history[i].elems)
    /\ history[3].stored.length = 0

\* The scenario has been played to its end.
C13_Witness ==
  /\ ScenarioPlayed
  /\ stateRef = [data |-> Array(3, <<>>), length |-> 0]
  /\ call.rerenderCalls = 1

\* ------------------------- the test component and useDataWithDepsTracking
\* Number of labels submitted.
MaxSubmits == 3

\* A string is the sequence of its characters.
Label12345 == <<"1", "2", "3", "4", "5">>

Label54321 == <<"5", "4", "3", "2", "1">>

\* The labels typed into the input: the two of the test, the empty one and
\* one of another length.
DataLabels == {<<>>, Label12345, Label54321, <<"a">>}

\* label.split(""): the one-character strings of the label, in order.
Split(string) == [i \in 1..Len(string) |-> <<string[i]>>]

\* useRef(initialValue): the value is taken on the first render only.
useRef(current, initialValue, firstRender) ==
  IF firstRender THEN initialValue ELSE current

\* Mutant: no dependency list, a new function on every render.
useCallbackNoMemo(memo, fn, deps) == [fn |-> fn, deps |-> deps]

\* useCallback(fn, deps): the memoized function unless the deps changed.
useCallback(memo, fn, deps) ==
  IF memo = NoMemo \/ memo.deps # deps
  THEN [fn |-> fn, deps |-> deps]
  ELSE memo

\* The state useDataWithDepsTracking passes to useStateWithDeps.
DataInitial(string, ref) == [data |-> Array(ref, Split(string)), length |-> 0]

\* render(<App />) has been called, nothing has rendered yet.
DataInit ==
  /\ ContainerInit(DataInitial(<<>>, 0))
  /\ ScenarioIdle
  /\ ButtonInit
  /\ StarterIdle
  /\ ViewIdle
  /\ TwinIdle
  /\ label = <<>>
  /\ submitted = <<>>
  /\ renders = 0
  /\ renderPending = TRUE
  /\ effectPending = FALSE
  /\ setStateMemo = NoMemo
  /\ effectDeps = <<>>
  /\ nextRef = 0

\* Nothing is scheduled: the point where the test looks at the count.
DataSettled == renders > 0 /\ ~renderPending /\ ~effectPending

\* App renders: the hooks run, length is read through its getter, the render
\* is counted and the label effect is scheduled if its deps changed.
DataRender ==
  /\ renderPending /\ ~effectPending
  /\ LET ref  == useRef(stateRef, DataInitial(label, nextRef), renders = 0)
         memo == useCallback(setStateMemo, renders + 1, <<"rerender">>)
         r    == getter(ref, stateDependencies, "length")
         deps == <<label, memo.fn>>
     IN  /\ stateRef' = ref
         /\ stateDependencies' = r.deps
         /\ call' = [name |-> "get", payload |-> EmptyPayload,
                     field |-> "length", state |-> stateRef,
                     deps |-> stateDependencies, unmounted |-> unmounted,
                     rerenderCalls |-> 0, ret |-> r.ret]
         /\ setStateMemo' = memo
         /\ effectPending' = (renders = 0 \/ deps # effectDeps)
         /\ effectDeps' = deps
  /\ nextRef' = nextRef + 1
  /\ renders' = renders + 1
  /\ renderPending' = FALSE
  /\ UNCHANGED <<unmounted, lastWritten, lastGiven, label, submitted>>

\* The label effect runs: setState({ data, length: data.length }); a signal
\* schedules a render.
DataRunEffect ==
  /\ effectPending
  /\ LET data == Array(nextRef, Split(label))
     IN  SetState([data |-> data, length |-> Len(data.elems)])
  /\ renderPending' = (call'.rerenderCalls > 0)
  /\ effectPending' = FALSE
  /\ nextRef' = nextRef + 1
  /\ UNCHANGED <<label, submitted, renders, setStateMemo, effectDeps>>

\* The form is submitted with another label: setLabel schedules a render.
DataSubmit(string) ==
  /\ DataSettled
  /\ Len(submitted) < MaxSubmits
  /\ string # label
  /\ label' = string
  /\ submitted' = Append(submitted, string)
  /\ renderPending' = TRUE
  /\ UNCHANGED <<renders, effectPending, setStateMemo, effectDeps, nextRef>>
  /\ UNCHANGED containerVars

\* What the test component leaves alone.
dataOthers == <<scenarioVars, buttonVars, starterVars, viewVars, twinVars>>

DataNext ==
  \/ DataRender /\ UNCHANGED dataOthers
  \/ DataRunEffect /\ UNCHANGED dataOthers
  \/ \E string \in DataLabels : DataSubmit(string) /\ UNCHANGED dataOthers

DataSpec == DataInit /\ [][DataNext]_vars

\* The renders a sequence of label changes accounts for: one per change and
\* one more when the length changes.
RECURSIVE RendersFor(_, _)
RendersFor(previous, labels) ==
  IF labels = <<>> THEN 0
  ELSE 1 + (IF Len(Head(labels)) # Len(previous) THEN 1 ELSE 0)
         + RendersFor(Head(labels), Tail(labels))

\* C14: reading only length, a label change costs the render of the label
\* state and one more exactly when the length changes; the count is 1 after
\* mount, 3 after submitting "12345" and 4 after submitting "54321".
C14_RendersOnlyWhenLengthChanges ==
  DataSettled =>
    /\ renders = 1 + RendersFor(<<>>, submitted)
    /\ submitted = <<>> => renders = 1
    /\ submitted = <<Label12345>> => renders = 3
    /\ submitted = <<Label12345, Label54321>> => renders = 4

\* The end of the test: "12345" then "54321" submitted, four renders, and
\* data is the array of the second label.
C14_Witness ==
  /\ DataSettled
  /\ submitted = <<Label12345, Label54321>>
  /\ renders = 4
  /\ stateRef.data.elems = Split(Label54321)
  /\ stateRef.length = 5

\* C19: setState is the same function in every render, the one created by
\* the first render, and it is the one the label effect has captured; called
\* after later renders it writes the record those renders read and sees the
\* flags they set, so it signals exactly when the tracked length changes.
C19_SetStateStable ==
  renders > 0 =>
    /\ setStateMemo.fn = 1
    /\ effectDeps[2] = 1
    /\ IsSet =>
         /\ stateRef.length = call.payload.length
         /\ stateRef.data = call.payload.data
         /\ call.deps.length = TRUE
         /\ call.rerenderCalls =
              IF call.state.length # call.payload.length THEN 1 ELSE 0

\* After the third render the effect has called the setState of the first
\* render, which changed length and signalled.
C19_Witness ==
  /\ renders >= 3
  /\ IsSet /\ call.rerenderCalls = 1
  /\ setStateMemo.fn = 1
  /\ stateRef.length = Len(label)

\* ------------------------------------------------------------ EvenButton
\* Number of clicks fired.
MaxClicks == 100

\* Mutant: setCount is called on every click.
ClickSetsCountAlways(current) == TRUE

\* if (refState.current % 2 === 0)
ClickSetsCount(current) == current % 2 = 0

\* onClick: the hidden counter goes up by one; setCount when it is even.
ButtonClick ==
  /\ clicks < MaxClicks
  /\ ~buttonRenderPending
  /\ clicks' = clicks + 1
  /\ refState' = refState + 1
  /\ IF ClickSetsCount(refState')
     THEN /\ count' = refState'
          /\ buttonRenderPending' = (count' # count)
     ELSE UNCHANGED <<count, buttonRenderPending>>
  /\ UNCHANGED text

\* EvenButton renders again: useRef keeps the counter, the button shows count.
ButtonRender ==
  /\ buttonRenderPending
  /\ refState' = useRef(refState, count, FALSE)
  /\ text' = count
  /\ buttonRenderPending' = FALSE
  /\ UNCHANGED <<count, clicks>>

\* What EvenButton leaves alone.
buttonOthers ==
  <<containerVars, scenarioVars, dataVars, starterVars, viewVars, twinVars>>

ButtonNext ==
  \/ ButtonClick /\ UNCHANGED buttonOthers
  \/ ButtonRender /\ UNCHANGED buttonOthers

ButtonSpecInit ==
  /\ ContainerInit(initialState)
  /\ ScenarioIdle
  /\ DataIdle
  /\ StarterIdle
  /\ ViewIdle
  /\ TwinIdle
  /\ ButtonInit

ButtonSpec == ButtonSpecInit /\ [][ButtonNext]_vars

\* C17: after n clicks the hidden counter is n; the displayed count is never
\* odd and, once rendered, is the largest even number not exceeding n.
C17_EvenButtonShowsEvenCount ==
  /\ refState = clicks
  /\ text % 2 = 0
  /\ ~buttonRenderPending => text = clicks - (clicks % 2)
  /\ (~buttonRenderPending /\ clicks = 1) => text = 0
  /\ (~buttonRenderPending /\ clicks = 2) => text = 2

\* Three clicks: the hidden counter is 3 and the button still shows 2.
C17_Witness ==
  /\ clicks = 3 /\ refState = 3
  /\ ~buttonRenderPending
  /\ text = 2

\* ----------------------- useStarterPokemon, fetches gated on the flags
\* A field value of the PokemonStarter state: an object or null, compared by
\* reference.  Each fetch parses its own object.
Null == [object |-> "null"]

PokemonData(p) == [object |-> p]

\* { bulbasaur: null, charmander: null, squirtle: null }
StarterInitial == [p \in Starters |-> Null]

\* Mutant: the effect does not look at the flag and always fetches.
EffectStartsFetchAlways(deps, p) == TRUE

\* if (!stateDependencies.bulbasaur) return;
EffectStartsFetch(deps, p) == deps[p]

\* Mutant: the catch handler does not look at the signal.
CatchReturnsNever(signalAborted) == FALSE

\* if (controller.signal.aborted) return;
CatchReturns(signalAborted) == signalAborted

\* The setState that useCallback(..., [rerender]) returns in a render:
\* rerender comes from useState and is the same in every render.
RECURSIVE SetStateOfRender(_)
SetStateOfRender(render) ==
  IF render <= 1
  THEN useCallback(NoMemo, render, <<"rerender">>)
  ELSE useCallback(SetStateOfRender(render - 1), render, <<"rerender">>)

\* }, [setState]): the dependency list of each effect in a render.
StarterEffectDeps(render) == <<SetStateOfRender(render).fn>>

\* Mutant: the effects have no dependency list and run after every render.
EffectRunsEveryCommit(firstCommit, previousDeps, deps) == TRUE

\* useEffect(effect, deps): the effect runs after the first render and after
\* a render whose deps differ from those of the render before.
EffectRuns(firstCommit, previousDeps, deps) ==
  firstCommit \/ previousDeps # deps

\* The hook has been called by the first render; nothing has been read and
\* the mount effects have not run.
StarterInit ==
  /\ ContainerInit(StarterInitial)
  /\ ScenarioIdle
  /\ DataIdle
  /\ ButtonInit
  /\ StarterIdle
  /\ ViewIdle
  /\ TwinIdle

\* The consumer reads the field of p through its getter.
StarterGet(p) ==
  /\ Get(p)
  /\ readBeforeEffects' =
       IF mountEffectsRun THEN readBeforeEffects
       ELSE readBeforeEffects \cup {p}
  /\ UNCHANGED <<fetch, aborted, mountEffectsRun, starterRenders,
                 starterRenderPending>>

\* The three mount effects run, once: each starts its fetch unless the field
\* has not been read.
StarterMountEffects ==
  /\ ~mountEffectsRun
  /\ EffectRuns(TRUE, <<>>, StarterEffectDeps(1))
  /\ mountEffectsRun' = TRUE
  /\ fetch' = [p \in Starters |->
                 IF EffectStartsFetch(stateDependencies, p)
                 THEN "pending" ELSE "idle"]
  /\ UNCHANGED <<aborted, readBeforeEffects, starterRenders,
                 starterRenderPending>>
  /\ UNCHANGED containerVars

\* The response of p has been received and parsed before any abort; the then
\* callback is yet to run.
StarterFetchArrive(p) ==
  /\ fetch[p] = "pending" /\ ~aborted[p]
  /\ fetch' = [fetch EXCEPT ![p] = "arrived"]
  /\ UNCHANGED <<aborted, mountEffectsRun, readBeforeEffects, starterRenders,
                 starterRenderPending>>
  /\ UNCHANGED containerVars

\* .then((data) => setState({ p: data }))
StarterFetchResolve(p) ==
  /\ fetch[p] = "arrived"
  /\ SetState([k \in {p} |-> PokemonData(p)])
  /\ fetch' = [fetch EXCEPT ![p] = "resolved"]
  /\ starterRenderPending' =
       (starterRenderPending \/ call'.rerenderCalls > 0)
  /\ UNCHANGED <<aborted, mountEffectsRun, readBeforeEffects, starterRenders>>

\* The fetch of p rejects, by a network error or by the abort:
\* .catch((e) => { if (aborted) return; setState({ p: null }); })
StarterFetchFail(p) ==
  /\ fetch[p] = "pending"
  /\ IF CatchReturns(aborted[p])
     THEN /\ fetch' = [fetch EXCEPT ![p] = "aborted"]
          /\ UNCHANGED containerVars
          /\ UNCHANGED starterRenderPending
     ELSE /\ SetState([k \in {p} |-> Null])
          /\ fetch' = [fetch EXCEPT ![p] = "rejected"]
          /\ starterRenderPending' =
               (starterRenderPending \/ call'.rerenderCalls > 0)
  /\ UNCHANGED <<aborted, mountEffectsRun, readBeforeEffects, starterRenders>>

\* The component unmounts: every effect that started a fetch aborts its
\* controller and the hook's own cleanup sets the unmounted flag.
StarterUnmount ==
  /\ mountEffectsRun
  /\ Unmount
  /\ aborted' = [p \in Starters |-> fetch[p] # "idle"]
  /\ UNCHANGED <<fetch, mountEffectsRun, readBeforeEffects, starterRenders,
                 starterRenderPending>>

\* The component renders again after a signal (the first render is the one
\* that called the hook) and React commits: an effect whose deps changed is
\* cleaned up (its controller aborted) and run again, gate included.
StarterRender ==
  /\ starterRenderPending /\ mountEffectsRun /\ ~unmounted
  /\ starterRenders' = starterRenders + 1
  /\ starterRenderPending' = FALSE
  /\ IF EffectRuns(FALSE, StarterEffectDeps(starterRenders + 1),
                   StarterEffectDeps(starterRenders + 2))
     THEN /\ fetch' = [p \in Starters |->
                         IF EffectStartsFetch(stateDependencies, p)
                         THEN "pending" ELSE fetch[p]]
          /\ aborted' = [p \in Starters |->
                           ~EffectStartsFetch(stateDependencies, p)
                           /\ (aborted[p] \/ fetch[p] # "idle")]
     ELSE UNCHANGED <<fetch, aborted>>
  /\ UNCHANGED <<mountEffectsRun, readBeforeEffects>>
  /\ UNCHANGED containerVars

\* What the hook leaves alone.
starterOthers == <<scenarioVars, dataVars, buttonVars, viewVars, twinVars>>

StarterNext ==
  \/ \E p \in Starters : StarterGet(p) /\ UNCHANGED starterOthers
  \/ StarterMountEffects /\ UNCHANGED starterOthers
  \/ \E p \in Starters : StarterFetchArrive(p) /\ UNCHANGED starterOthers
  \/ \E p \in Starters : StarterFetchResolve(p) /\ UNCHANGED starterOthers
  \/ \E p \in Starters : StarterFetchFail(p) /\ UNCHANGED starterOthers
  \/ StarterRender /\ UNCHANGED starterOthers
  \/ StarterUnmount /\ UNCHANGED starterOthers

StarterSpec == StarterInit /\ [][StarterNext]_vars

\* C18: a fetch is started only for a pokemon whose field was read before
\* the mount effects ran; a pokemon whose field has never been read has no
\* fetch and its field is null.
C18_FetchOnlyIfReadBeforeMount ==
  \A p \in Starters :
    /\ fetch[p] # "idle" => p \in readBeforeEffects
    /\ stateDependencies[p] = FALSE =>
         (fetch[p] = "idle" /\ stateRef[p] = Null)

\* bulbasaur was read during the first render and its fetch has stored its
\* data; charmander has never been read, has no fetch and is null.
C18_Witness ==
  /\ mountEffectsRun
  /\ fetch["bulbasaur"] = "resolved"
  /\ stateRef["bulbasaur"] = PokemonData("bulbasaur")
  /\ stateDependencies["charmander"] = FALSE
  /\ fetch["charmander"] = "idle"
  /\ stateRef["charmander"] = Null

\* ------------- useStateWithDeps(state, unmountedRef), the second variant
\* useConstant(() => { for (const key in state) deps[key] = false; ... })
InitStateDeps(state) == [key \in DOMAIN state |-> FALSE]

\* Mutant: the flags are not consulted, any changed key asks for a rerender
\* (a plain store that notifies on every change).
RECURSIVE SetStateLoopUnmountedRefAnyChange(_, _, _, _, _)
SetStateLoopUnmountedRefAnyChange(keys, payload, currentState, deps, shouldRerender) ==
  IF keys = {}
  THEN [state |-> currentState, shouldRerender |-> shouldRerender]
  ELSE LET k == CHOOSE x \in keys : TRUE
       IN  IF Lookup(currentState, k) # payload[k]
           THEN SetStateLoopUnmountedRefAnyChange(
                  keys \ {k}, payload, Assign(currentState, k, payload[k]),
                  deps, TRUE)
           ELSE SetStateLoopUnmountedRefAnyChange(
                  keys \ {k}, payload, currentState, deps, shouldRerender)

\* for (const k in payload) { ... } of the second variant.
RECURSIVE SetStateLoopUnmountedRef(_, _, _, _, _)
SetStateLoopUnmountedRef(keys, payload, currentState, deps, shouldRerender) ==
  IF keys = {}
  THEN [state |-> currentState, shouldRerender |-> shouldRerender]
  ELSE LET k == CHOOSE x \in keys : TRUE
       IN  IF Lookup(currentState, k) # payload[k]
           THEN SetStateLoopUnmountedRef(
                  keys \ {k}, payload, Assign(currentState, k, payload[k]),
                  deps,
                  IF k \in DOMAIN deps /\ deps[k]
                  THEN TRUE ELSE shouldRerender)
           ELSE SetStateLoopUnmountedRef(
                  keys \ {k}, payload, currentState, deps, shouldRerender)

\* Mutant: the second variant does not consult unmountedRef.
setStateUnmountedRefIgnoringFlag(payload, currentState, deps, unmountedRefCurrent) ==
  [state         |-> Merged(DOMAIN payload, payload, currentState),
   deps          |-> deps,
   rerenderCalls |->
     IF ChangedAccessed(payload, currentState, deps) # {} THEN 1 ELSE 0]

\* One call of the second variant's setState(payload); unmountedRefCurrent
\* is unmountedRef.current, the flag the caller owns.
setStateUnmountedRef(payload, currentState, deps, unmountedRefCurrent) ==
  LET loop == SetStateLoopUnmountedRef(DOMAIN payload, payload, currentState,
                                       deps, FALSE)
  IN  [state         |-> loop.state,
       deps          |-> deps,
       rerenderCalls |->
         IF loop.shouldRerender /\ ~unmountedRefCurrent THEN 1 ELSE 0]

\* A producer calls the second variant's setState(payload).
SetStateUnmountedRef(payload) ==
  LET r == setStateUnmountedRef(payload, stateRef, stateDependencies,
                                unmounted)
  IN  /\ stateRef' = r.state
      /\ stateDependencies' = r.deps
      /\ lastWritten' =
           [f \in DOMAIN lastWritten |->
              IF f \in DOMAIN payload /\ payload[f] # stateRef[f]
              THEN payload[f] ELSE lastWritten[f]]
      /\ lastGiven' =
           [k \in DOMAIN lastGiven |->
              IF k \in DOMAIN payload THEN payload[k] ELSE lastGiven[k]]
      /\ call' = [name |-> "setState", payload |-> payload, field |-> "",
                  state |-> stateRef, deps |-> stateDependencies,
                  unmounted |-> unmounted,
                  rerenderCalls |-> r.rerenderCalls, ret |-> Undefined]
      /\ UNCHANGED unmounted

\* ------------------------------- App.tsx: useStarterPokemon and App
\* Mutant: the catch handler does not look at the signal.
AppCatchReturnsNever(signalAborted) == FALSE

\* if (controller.signal.aborted) return;
AppCatchReturns(signalAborted) == signalAborted

\* App is about to render for the first time.
AppInit ==
  /\ stateRef = StarterInitial
  /\ stateDependencies = InitStateDeps(StarterInitial)
  /\ unmounted = FALSE
  /\ lastWritten = StarterInitial
  /\ lastGiven = [k \in Starters \cup UnknownKeys |->
                    Lookup(StarterInitial, k)]
  /\ call = NoCall
  /\ ScenarioIdle
  /\ DataIdle
  /\ ButtonInit
  /\ ViewIdle
  /\ TwinIdle
  /\ fetch = [p \in Starters |-> "idle"]
  /\ aborted = [p \in Starters |-> FALSE]
  /\ mountEffectsRun = FALSE
  /\ readBeforeEffects = {}
  /\ starterRenders = 0
  /\ starterRenderPending = TRUE

\* App renders: const { bulbasaur } = useStarterPokemon(); console.count.
AppRender ==
  /\ starterRenderPending /\ ~unmounted
  /\ Get("bulbasaur")
  /\ readBeforeEffects' =
       IF mountEffectsRun THEN readBeforeEffects
       ELSE readBeforeEffects \cup {"bulbasaur"}
  /\ starterRenders' = starterRenders + 1
  /\ starterRenderPending' = FALSE
  /\ UNCHANGED <<fetch, aborted, mountEffectsRun>>

\* The mount effects run after the first render: the three fetches start.
AppMountEffects ==
  /\ starterRenders > 0 /\ ~mountEffectsRun
  /\ mountEffectsRun' = TRUE
  /\ fetch' = [p \in Starters |-> "pending"]
  /\ UNCHANGED <<aborted, readBeforeEffects, starterRenders,
                 starterRenderPending>>
  /\ UNCHANGED containerVars

\* The response of p has been received and parsed before any abort; the then
\* callback is yet to run.
AppFetchArrive(p) ==
  /\ fetch[p] = "pending" /\ ~aborted[p]
  /\ fetch' = [fetch EXCEPT ![p] = "arrived"]
  /\ UNCHANGED <<aborted, mountEffectsRun, readBeforeEffects, starterRenders,
                 starterRenderPending>>
  /\ UNCHANGED containerVars

\* .then((data) => setState({ p: data }))
AppFetchResolve(p) ==
  /\ fetch[p] = "arrived"
  /\ SetStateUnmountedRef([k \in {p} |-> PokemonData(p)])
  /\ fetch' = [fetch EXCEPT ![p] = "resolved"]
  /\ starterRenderPending' =
       (starterRenderPending \/ call'.rerenderCalls > 0)
  /\ UNCHANGED <<aborted, mountEffectsRun, readBeforeEffects, starterRenders>>

\* The fetch of p rejects, by a network error or by the abort:
\* .catch((e) => { if (aborted) return; setState({ p: null }); })
AppFetchFail(p) ==
  /\ fetch[p] = "pending"
  /\ IF AppCatchReturns(aborted[p])
     THEN /\ fetch' = [fetch EXCEPT ![p] = "aborted"]
          /\ UNCHANGED containerVars
          /\ UNCHANGED starterRenderPending
     ELSE /\ SetStateUnmountedRef([k \in {p} |-> Null])
          /\ fetch' = [fetch EXCEPT ![p] = "rejected"]
          /\ starterRenderPending' =
               (starterRenderPending \/ call'.rerenderCalls > 0)
  /\ UNCHANGED <<aborted, mountEffectsRun, readBeforeEffects, starterRenders>>

\* App unmounts: the cleanups abort the three controllers and set
\* unmounted.current to true, in one commit.
AppUnmount ==
  /\ mountEffectsRun
  /\ Unmount
  /\ aborted' = [p \in Starters |-> TRUE]
  /\ UNCHANGED <<fetch, mountEffectsRun, readBeforeEffects, starterRenders,
                 starterRenderPending>>

AppNext ==
  \/ AppRender /\ UNCHANGED starterOthers
  \/ AppMountEffects /\ UNCHANGED starterOthers
  \/ \E p \in Starters : AppFetchArrive(p) /\ UNCHANGED starterOthers
  \/ \E p \in Starters : AppFetchResolve(p) /\ UNCHANGED starterOthers
  \/ \E p \in Starters : AppFetchFail(p) /\ UNCHANGED starterOthers
  \/ AppUnmount /\ UNCHANGED starterOthers

AppSpec == AppInit /\ [][AppNext]_vars

\* C20: however the fetches settle around the unmount, no set call made
\* after the unmount cleanup invokes rerender and no render is scheduled or
\* made after it; and a fetch that rejects with its controller aborted makes
\* no setState call: its settling changes nothing in the container.
C20_NoRerenderAfterUnmount ==
  /\ []((IsSet /\ call.unmounted) => call.rerenderCalls = 0)
  /\ [][unmounted = TRUE =>
          /\ starterRenderPending' = starterRenderPending
          /\ starterRenders' = starterRenders]_vars
  /\ [][\A p \in Starters :
          (fetch[p] = "pending" /\ aborted[p] /\ fetch'[p] # fetch[p])
            => /\ fetch'[p] = "aborted"
               /\ UNCHANGED containerVars]_vars

\* After the unmount the then callback of bulbasaur (its response had been
\* parsed) stored its data without a signal, and the aborted fetch of
\* charmander settled without a set call.
C20_Witness ==
  /\ unmounted = TRUE
  /\ IsSet /\ call.unmounted /\ Tracked("bulbasaur")
  /\ call.payload = [k \in {"bulbasaur"} |-> PokemonData("bulbasaur")]
  /\ stateRef["bulbasaur"] = PokemonData("bulbasaur")
  /\ call.rerenderCalls = 0
  /\ fetch["charmander"] = "aborted"
  /\ stateRef["charmander"] = Null

\* The renders of App made or scheduled so far.
AppRendersDue == starterRenders + (IF starterRenderPending THEN 1 ELSE 0)

\* C21: App reads only bulbasaur.  A set call made by the charmander or the
\* squirtle fetch (data on success, null on failure) leaves its value in the
\* state record and does not invoke rerender; rerender is invoked only by
\* the set call that stores the data of bulbasaur over null, so App renders
\* once at mount and at most once more; a failed bulbasaur fetch stores null
\* over null and App has rendered once only.
C21_OnlyBulbasaurRerenders ==
  /\ stateDependencies["charmander"] = FALSE
  /\ stateDependencies["squirtle"] = FALSE
  /\ \A p \in {"charmander", "squirtle"} :
       (IsSet /\ DOMAIN call.payload = {p})
         => /\ call.rerenderCalls = 0
            /\ stateRef[p] = call.payload[p]
            /\ fetch[p] = "resolved" => stateRef[p] = PokemonData(p)
  /\ (IsSet /\ call.rerenderCalls > 0)
       => /\ call.payload =
               [k \in {"bulbasaur"} |-> PokemonData("bulbasaur")]
          /\ call.state["bulbasaur"] = Null
          /\ stateRef["bulbasaur"] = PokemonData("bulbasaur")
  /\ AppRendersDue <= 2
  /\ AppRendersDue = 2 => fetch["bulbasaur"] = "resolved"
  /\ fetch["bulbasaur"] = "rejected"
       => /\ stateRef["bulbasaur"] = Null
          /\ AppRendersDue = 1

\* Mounted, all three fetches have settled: charmander stored its data and
\* squirtle failed, both before bulbasaur stored its data; App has rendered
\* twice, the second time for bulbasaur.
C21_Witness ==
  /\ ~unmounted
  /\ fetch = [p \in Starters |->
                IF p = "squirtle" THEN "rejected" ELSE "resolved"]
  /\ stateRef["charmander"] = PokemonData("charmander")
  /\ stateRef["squirtle"] = Null
  /\ stateRef["bulbasaur"] = PokemonData("bulbasaur")
  /\ starterRenders = 2 /\ ~starterRenderPending

\* Mounted, the bulbasaur fetch failed after the other two stored their
\* data: App has rendered once.
C21_WitnessFailed ==
  /\ ~unmounted
  /\ fetch["bulbasaur"] = "rejected"
  /\ fetch["charmander"] = "resolved" /\ fetch["squirtle"] = "resolved"
  /\ stateRef["bulbasaur"] = Null
  /\ starterRenders = 1 /\ ~starterRenderPending

\* ------------------------------------------------ the view of a consumer
\* The payloads over the fields the consumer can read; a key outside the
\* field set has no getter and leaves the fields alone.
ViewPayloads == { payload \in Payloads : DOMAIN payload \subseteq Fields }

\* The consumer has read nothing yet.
ViewInit ==
  /\ ContainerInit(initialState)
  /\ ScenarioIdle
  /\ DataIdle
  /\ ButtonInit
  /\ StarterIdle
  /\ TwinIdle
  /\ lastRead = [f \in Fields |-> Unread]
  /\ signalledSinceRead = [f \in Fields |-> FALSE]

\* The consumer reads a field and keeps the value it obtained.
ViewGet(field) ==
  /\ Get(field)
  /\ lastRead' = [lastRead EXCEPT ![field] = ReadAs(call'.ret)]
  /\ signalledSinceRead' = [signalledSinceRead EXCEPT ![field] = FALSE]

\* A producer calls setState(payload); rerender({}), when invoked, tells the
\* consumer that its view of every field it has read may be outdated.
ViewSetState(payload) ==
  /\ SetState(payload)
  /\ signalledSinceRead' =
       [f \in Fields |->
          \/ signalledSinceRead[f]
          \/ (lastRead[f].read /\ call'.rerenderCalls > 0)]
  /\ UNCHANGED lastRead

\* The consumer unmounts and keeps what it holds.
ViewUnmount ==
  /\ Unmount
  /\ UNCHANGED viewVars

\* What the consumer's view leaves alone.
viewOthers == <<scenarioVars, dataVars, buttonVars, starterVars, twinVars>>

ViewNext ==
  \/ \E field \in Fields : ViewGet(field) /\ UNCHANGED viewOthers
  \/ \E payload \in ViewPayloads :
       ViewSetState(payload) /\ UNCHANGED viewOthers
  \/ ViewUnmount /\ UNCHANGED viewOthers

ViewSpec == ViewInit /\ [][ViewNext]_vars

\* C22: no stale tracked view.  While the consumer is mounted, a field it
\* has read whose stored value differs from the value obtained at its latest
\* read has had rerender invoked since that read; so a mounted consumer that
\* has re-read its fields after every signal holds the stored value of every
\* field it has read.
C22_NoStaleTrackedView ==
  ~unmounted =>
    /\ \A f \in Fields :
         (lastRead[f].read /\ stateRef[f] # lastRead[f].value)
           => signalledSinceRead[f]
    /\ (\A f \in Fields : ~signalledSinceRead[f])
         => \A f \in Fields :
              lastRead[f].read => lastRead[f].value = stateRef[f]

\* Mounted, both fields read: a set call has changed the stored value of a
\* away from the value read and signalled, the consumer has re-read a and
\* not yet b, whose stored value is still the one read.
C22_Witness ==
  /\ ~unmounted
  /\ IsGet /\ call.field = "a"
  /\ lastRead["a"].read /\ lastRead["a"].value # initialState["a"]
  /\ lastRead["a"].value = stateRef["a"]
  /\ ~signalledSinceRead["a"]
  /\ lastRead["b"].read /\ lastRead["b"].value = stateRef["b"]
  /\ signalledSinceRead["b"]

\* Mounted: the stored value of a read field differs from the value read,
\* and the signal has been given.
C22_WitnessOutdated ==
  /\ ~unmounted /\ IsSet
  /\ lastRead["a"].read /\ stateRef["a"] # lastRead["a"].value
  /\ signalledSinceRead["a"]
  /\ lastRead["b"] = Unread /\ stateRef["b"] # initialState["b"]

\* ------------------------------------ the two variants run side by side
\* Both hooks are constructed on equal initial records, each holding its own
\* object; the caller of the second variant owns unmountedRef = useRef(false).
TwinInit ==
  /\ ContainerInit(initialState)
  /\ ScenarioIdle
  /\ DataIdle
  /\ ButtonInit
  /\ StarterIdle
  /\ ViewIdle
  /\ twinStateRef = useRef(<<>>, initialState, TRUE)
  /\ twinStateDependencies = InitStateDeps(initialState)
  /\ unmountedRef = FALSE
  /\ twinCall = [rerenderCalls |-> 0, ret |-> Undefined]

\* The same payload is passed to the setState of each variant.
TwinSetState(payload) ==
  /\ SetState(payload)
  /\ LET r == setStateUnmountedRef(payload, twinStateRef,
                                   twinStateDependencies, unmountedRef)
     IN  /\ twinStateRef' = r.state
         /\ twinStateDependencies' = r.deps
         /\ twinCall' = [rerenderCalls |-> r.rerenderCalls,
                         ret |-> Undefined]
  /\ UNCHANGED unmountedRef

\* The same field is read through the getter of each variant.
TwinGet(field) ==
  /\ Get(field)
  /\ LET r == getter(twinStateRef, twinStateDependencies, field)
     IN  /\ twinStateDependencies' = r.deps
         /\ twinCall' = [rerenderCalls |-> 0, ret |-> r.ret]
  /\ UNCHANGED <<twinStateRef, unmountedRef>>

\* Both components unmount: the first variant's own cleanup and the cleanup
\* of the second variant's caller, unmounted.current = true.
TwinUnmount ==
  /\ Unmount
  /\ ~unmountedRef
  /\ unmountedRef' = TRUE
  /\ twinCall' = [rerenderCalls |-> 0, ret |-> Undefined]
  /\ UNCHANGED <<twinStateRef, twinStateDependencies>>

\* What the pair leaves alone.
twinOthers == <<scenarioVars, dataVars, buttonVars, starterVars, viewVars>>

TwinNext ==
  \/ \E payload \in Payloads : TwinSetState(payload) /\ UNCHANGED twinOthers
  \/ \E field \in Fields : TwinGet(field) /\ UNCHANGED twinOthers
  \/ TwinUnmount /\ UNCHANGED twinOthers

TwinSpec == TwinInit /\ [][TwinNext]_vars

\* C23: given the same reads, set calls and unmount, the two variants hold
\* equal state records, equal dependency flags and equal unmounted flags
\* after every step, their getters return equal values and their set calls
\* invoke rerender the same number of times.
C23_VariantsEquivalent ==
  /\ twinStateRef = stateRef
  /\ twinStateDependencies = stateDependencies
  /\ unmountedRef = unmounted
  /\ twinCall.rerenderCalls = call.rerenderCalls
  /\ twinCall.ret = call.ret

\* After the unmount the same set call has changed a tracked field and
\* created an unknown key in both variants, and neither has signalled.
C23_Witness ==
  /\ unmounted /\ unmountedRef
  /\ IsSet /\ call.unmounted
  /\ \E k \in Fields : k \in DOMAIN call.payload /\ Differs(k) /\ Tracked(k)
  /\ \E z \in UnknownKeys :
       z \notin DOMAIN call.state /\ z \in DOMAIN twinStateRef
  /\ twinStateRef # initialState
  /\ twinCall.rerenderCalls = 0

\* Mounted, the same set call has changed a tracked field in both variants
\* and both have signalled once.
C23_WitnessSignal ==
  /\ ~unmounted /\ ~unmountedRef
  /\ IsSet
  /\ \E k \in Fields : k \in DOMAIN call.payload /\ Differs(k) /\ Tracked(k)
  /\ twinStateRef # initialState
  /\ twinCall.rerenderCalls = 1

\* ------------------ useDataWithDepsTracking(label), whatever the first label
\* A component calls the hook with any label on its first render.
LabelInit ==
  \E string \in DataLabels :
    /\ ContainerInit(DataInitial(string, 0))
    /\ ScenarioIdle
    /\ ButtonInit
    /\ StarterIdle
    /\ ViewIdle
    /\ TwinIdle
    /\ label = string
    /\ submitted = <<>>
    /\ renders = 0
    /\ renderPending = TRUE
    /\ effectPending = FALSE
    /\ setStateMemo = NoMemo
    /\ effectDeps = <<>>
    /\ nextRef = 0

LabelSpec == LabelInit /\ [][DataNext]_vars

\* The label effect has run for the label of the latest render, which is
\* the current label.
EffectRanForLabel ==
  /\ renders > 0
  /\ ~effectPending
  /\ effectDeps[1] = label

\* C24: once the label effect has run for the current label, the stored
\* length is the number of elements of the stored data, and the stored data
\* holds the characters of the label, one per element and in order; for the
\* first label and after every change of label.
C24_LengthMatchesData ==
  EffectRanForLabel =>
    /\ stateRef.length = Len(stateRef.data.elems)
    /\ Len(stateRef.data.elems) = Len(label)
    /\ \A i \in 1..Len(label) : stateRef.data.elems[i] = <<label[i]>>

\* The hook was first called with "12345": before its effect data had five
\* elements and length was 0; the effect has run, and has run again for the
\* label "a" submitted afterwards.
C24_Witness ==
  /\ EffectRanForLabel
  /\ submitted = <<(<<"a">>)>> /\ label = <<"a">>
  /\ lastGiven.length = 1
  /\ stateRef.length = 1
  /\ stateRef.data.elems = <<(<<"a">>)>>
  /\ renders >= 3

\* The hook was first called with "12345" and its effect has run: length 5.
C24_WitnessFirstLabel ==
  /\ EffectRanForLabel
  /\ submitted = <<>> /\ label = Label12345
  /\ call.state.length = 0 /\ Len(call.state.data.elems) = 5
  /\ stateRef.length = 5

\* ------------------------------- the gate of the gated useStarterPokemon
\* C25: the gate is looked at when the mount effects run and never again: a
\* field first read after the mount effects is tracked from then on, but no
\* fetch is ever started for it and it holds null in every later state,
\* whatever renders follow; once the mount effects have run no fetch starts.
C25_GateCheckedOnceAtMount ==
  /\ [](\A p \in Starters :
          (mountEffectsRun /\ p \notin readBeforeEffects)
            => (fetch[p] = "idle" /\ stateRef[p] = Null))
  /\ [][mountEffectsRun =>
          \A p \in Starters : fetch[p] = "idle" => fetch'[p] = "idle"]_vars

\* charmander was first read after the mount effects; later the fetch of a
\* field read in time stored its data and signalled, and the component has
\* rendered again: charmander is tracked, has no fetch and is null.
C25_Witness ==
  /\ mountEffectsRun /\ ~unmounted
  /\ "charmander" \notin readBeforeEffects
  /\ IsSet /\ call.deps["charmander"] = TRUE /\ call.rerenderCalls = 1
  /\ starterRenders >= 1 /\ ~starterRenderPending
  /\ stateDependencies["charmander"] = TRUE
  /\ fetch["charmander"] = "idle"
  /\ stateRef["charmander"] = Null

====
